---- MODULE Spec2Model ----
(***************************************************************************)
(* Model of McpServerManager (src/src/server-manager.ts): the registry of  *)
(* backend sessions (this.clients), its lifecycle operations               *)
(* (connectToServer, disconnectServer, disconnectAll, loadFromBlueprint),  *)
(* the router (callTool) and the catalog (listTools, listToolsInServer,    *)
(* getTool, findToolsInServer, findTools, listServers).  Every             *)
(* async method is split at its awaits: the code that runs between two     *)
(* awaits is one atomic action, and the calls of several callers           *)
(* interleave at the awaits.                                               *)
(*                                                                         *)
(* Spec is the lifecycle specification: two callers connect, disconnect    *)
(* and invoke on two names, starting from the empty registry.  SearchSpec  *)
(* is the search specification: one caller searches registries of up to    *)
(* two open backends, whose tools/list answers are drawn from Behaviours.  *)
(* CatalogSpec is the catalog specification: one caller reads (listTools,  *)
(* listToolsInServer, getTool, the searches, callTool, listServers) while  *)
(* a second caller connects and disconnects the names.  SetupSpec is the   *)
(* setup specification: one caller, whose calls never overlap, connects    *)
(* with every combination of parameters, loads blueprints and disconnects; *)
(* TeardownSpec is SetupSpec with closes that succeed inside disconnectAll *)
(* and with fairness for its continuations.  BootSpec is the bootstrap     *)
(* specification: a manager constructed with any options, whose            *)
(* constructor may have started a loadFromBlueprint, and a second caller   *)
(* that connects and disconnects while a load is in flight.  ScanSpec is   *)
(* the scan specification: one caller scans all backends with findTools    *)
(* while a second caller disconnects and connects them.  OrderSpec is the  *)
(* order specification: two callers connect and disconnect three names.    *)
(***************************************************************************)
EXTENDS Integers, Sequences, FiniteSets, TLC

\* ------------------------------------------------------------------ bounds
\* number of Client objects that may exist at the same time
MaxSessions == 3

Names == {"a", "b"}
\* the callers whose calls may overlap
Tasks == {"t1", "t2"}
Sids == 1..MaxSessions

VARIABLES
    clients,    \* this.clients: Map<string, Client>, in insertion order
    sess,       \* the Client objects (the external Sessions)
    task,       \* the in-flight call of each caller, with its local variables
    ret,        \* the call that settled in the last step, if one did
    backend,    \* what the backend behind each name answers to tools/list
    blueprintId \* this.blueprintId, "" for undefined

vars == <<clients, sess, task, ret, backend, blueprintId>>

\* -------------------------------------------------- the Map this.clients
\* A JS Map keeps its keys in insertion order; it is a sequence of entries.
Entry(n, s) == [name |-> n, sid |-> s]

Has(m, n) == \E i \in DOMAIN m : m[i].name = n

\* Map.get: the Client of n, or 0 for undefined
Get(m, n) == IF Has(m, n) THEN m[CHOOSE i \in DOMAIN m : m[i].name = n].sid ELSE 0

\* Map.set: a new key is appended, an existing key keeps its position
MapSet(m, n, s) ==
    IF Has(m, n)
    THEN [i \in DOMAIN m |-> IF m[i].name = n THEN Entry(n, s) ELSE m[i]]
    ELSE Append(m, Entry(n, s))

\* a delete that moves the last entry into the place of the deleted one
MapDeleteSwapping(m, n) ==
    IF \A i \in DOMAIN m : m[i].name # n THEN m
    ELSE LET k == CHOOSE i \in DOMAIN m : m[i].name = n
         IN SubSeq([m EXCEPT ![k] = m[Len(m)]], 1, Len(m) - 1)

\* Map.delete
MapDelete(m, n) == SelectSeq(m, LAMBDA e : e.name # n)

\* getConnectedServers / listServers: Array.from(this.clients.keys())
getConnectedServers(m) == [i \in DOMAIN m |-> m[i].name]

\* ------------------------------------------------------------- the calls
\* the arguments of a call that takes none of them
NoArgs == [pattern |-> <<>>, searchIn |-> "", caseSensitive |-> FALSE]
NoParams == [type |-> "", command |-> "", url |-> ""]
NoRequest == [toolName |-> <<>>, arguments |-> ""]

\* a caller with no call in flight.  listed: the number of client.listTools()
\* requests the call has issued; sent: the requests it has handed to
\* client.callTool(); transport: the transport it has built; input: the
\* toolName and args it was called with; config: the entries of the
\* configuration it has fetched; alone: no other call was in flight when the
\* call began and none has taken a step since; listing: what the
\* this.listTools(serverName) calls of a findTools have settled with, the
\* last one last
Idle ==
    [op |-> "idle", pc |-> "idle", name |-> "", client |-> 0,
     names |-> <<>>, idx |-> 0, args |-> NoArgs, results |-> <<>>,
     listed |-> 0, params |-> NoParams, transport |-> "",
     input |-> NoRequest, sent |-> <<>>, config |-> <<>>, alone |-> TRUE,
     listing |-> <<>>]

Free(t) == task[t].pc = "idle"

\* no call settled in this step.  reply: what the client.callTool of the call
\* settled with, the result or the error
NoRet ==
    [op |-> "none", name |-> "", outcome |-> "none", value |-> <<>>,
     args |-> NoArgs, names |-> <<>>, listed |-> 0, params |-> NoParams,
     transport |-> "", input |-> NoRequest, sent |-> <<>>, config |-> <<>>,
     reply |-> "", alone |-> TRUE, listing |-> <<>>]

\* the call op on the name n settles: it resolves with the value v when
\* out = "ok" and rejects with the error out otherwise
Settle(op, n, out, v) ==
    [NoRet EXCEPT !.op = op, !.name = n, !.outcome = out, !.value = v]

Throw(op, n, out) == Settle(op, n, out, <<>>)

\* ------------------------------------------------------ the Client objects
\* st: the state of the connection; closeCalled: close() has been called on it
NoSession == [st |-> "unused", closeCalled |-> FALSE]

\* something still holds the Client x: the registry or a call in flight
Referenced(x, c, tk) ==
    \/ \E i \in DOMAIN c : c[i].sid = x
    \/ \E t \in Tasks : tk[t].client = x

\* a Client that is closed and that nothing holds any more is garbage; an
\* open Client that nothing holds stays connected to its backend
Collect(s, c, tk) ==
    [x \in Sids |->
        IF s[x].st \in {"closed", "failed"} /\ ~Referenced(x, c, tk)
        THEN NoSession ELSE s[x]]

\* `new Client(...)` (lines 204-207): the identity of the new object
NewSid(s) ==
    CHOOSE x \in Sids :
        /\ s[x].st = "unused"
        /\ \A y \in Sids : s[y].st = "unused" => x <= y

\* the calls tk after a step that settles r, with the note, in every
\* loadFromBlueprint in flight, of a step that another call has taken: every
\* step of a loadFromBlueprint in flight moves it on, so a step that leaves
\* it where it was is a step of another call
Observe(tk, r) ==
    [t \in Tasks |->
        IF /\ tk[t].op = "loadFromBlueprint"
           /\ task[t].op = "loadFromBlueprint"
           /\ tk[t] = task[t]
        THEN [tk[t] EXCEPT !.alone = FALSE]
        ELSE tk[t]]

\* one atomic step of a call: the registry, the Clients and the calls after
\* it, and the call it settles
Step(c, s, tk, r) ==
    /\ clients' = c
    /\ task' = Observe(tk, r)
    /\ sess' = Collect(s, c, tk)
    /\ ret' = r
    /\ backend' = backend
    /\ blueprintId' = blueprintId

\* ------------------------------------------------------- connectToServer
\* ConnectMcpParams | McpServerConfig: "" stands for an absent field
ParamSet ==
    [type : {"", "stdio", "http"}, command : {"", "cmd"},
     url : {"", "valid", "invalid"}]

\* parameters of a server that is launched by a command
StdioParams == [type |-> "", command |-> "cmd", url |-> ""]

\* the parameters the callers of the lifecycle specification use
SomeParams ==
    {[type |-> "", command |-> "cmd", url |-> ""],
     [type |-> "stdio", command |-> "", url |-> "valid"]}

\* a connectToServer that infers the transport without looking at params.type
TransportTypeInferred(p) == IF p.command # "" THEN "stdio" ELSE "http"

\* line 158
TransportType(p) ==
    IF p.type # "" THEN p.type ELSE IF p.command # "" THEN "stdio" ELSE "http"

\* lines 162-202: the error thrown while building the transport, or "ok"
TransportError(p) ==
    IF TransportType(p) = "http"
    THEN IF p.url = "" THEN "MissingUrl"
         ELSE IF p.url = "invalid" THEN "InvalidUrl" ELSE "ok"
    ELSE IF p.command = "" THEN "MissingCommand" ELSE "ok"

\* a connectToServer that lost the check of line 151
ConnectNeverRejected(n) == FALSE

\* line 151: the guard that rejects a connect
ConnectRejected(n) == Has(clients, n)

\* connectToServer up to `await client.connect(transport)` (lines 147-210)
ConnectBegin(t, n, p) ==
    /\ Free(t)
    /\ IF ConnectRejected(n)
       THEN Step(clients, sess, task, Throw("connect", n, "AlreadyConnected"))
       ELSE IF TransportError(p) # "ok"
       THEN Step(clients, sess, task,
                 [Throw("connect", n, TransportError(p)) EXCEPT !.params = p])
       ELSE /\ \E x \in Sids : sess[x].st = "unused"
            /\ Step(clients,
                    [sess EXCEPT ![NewSid(sess)] =
                        [st |-> "connecting", closeCalled |-> FALSE]],
                    [task EXCEPT ![t] =
                        [Idle EXCEPT !.op = "connect", !.name = n,
                                     !.pc = "awaitConnect",
                                     !.params = p,
                                     !.transport = TransportType(p),
                                     !.client = NewSid(sess)]],
                    NoRet)

\* lines 210-211: the registry after `await client.connect(transport)`
ConnectStore(m, n, s, ok) == IF ok THEN MapSet(m, n, s) ELSE m

\* the continuation of `await client.connect(transport)` (lines 210-222)
ConnectResolve(t, ok) ==
    /\ task[t].op = "connect"
    /\ task[t].pc = "awaitConnect"
    /\ Step(ConnectStore(clients, task[t].name, task[t].client, ok),
            [sess EXCEPT ![task[t].client].st =
                IF ok THEN "open" ELSE "failed"],
            [task EXCEPT ![t] = Idle],
            [Throw("connect", task[t].name,
                   IF ok THEN "ok" ELSE "ConnectionFailed")
                EXCEPT !.params = task[t].params,
                       !.transport = task[t].transport])

\* ------------------------------------------------------- loadFromBlueprint
\* an entry of Object.entries(config.mcpServers)
Server(n, p) == [name |-> n, params |-> p]

\* the server configurations of the blueprints: one that connects over stdio,
\* one over http, one that has neither a command nor a URL
BlueprintParams ==
    {[type |-> "", command |-> "cmd", url |-> ""],
     [type |-> "", command |-> "", url |-> "valid"],
     [type |-> "", command |-> "", url |-> ""]}

\* config.mcpServers: the keys of an object are distinct
Configs ==
    {<<>>}
      \cup {<<Server(n, p)>> : n \in Names, p \in BlueprintParams}
      \cup {<<Server(e[1], e[3]), Server(e[2], e[4])>> :
                e \in {d \in Names \X Names \X BlueprintParams \X BlueprintParams :
                            d[1] # d[2]}}

\* line 120: Object.entries(config.mcpServers).  The names of the model are
\* not integer-like, so the property order is the insertion order.
Entries(mcpServers) == mcpServers

\* what the loop of lines 121-141 has done with an entry
Done(n, what) == [name |-> n, outcome |-> what]

\* a loop that stops at the first entry that cannot connect
AfterConnectErrorStopping(serverEntries, k) == Len(serverEntries) + 1

\* lines 134-140: the entry the loop goes on with after the connectToServer
\* of the entry k threw
AfterConnectError(serverEntries, k) == k + 1

\* lines 121-127: the loop from the entry k on, over the entries whose names
\* the registry m has (`continue` does not yield).  idx is the first entry
\* that is not skipped (past the end when there is none), done the entries
\* the loop has dealt with.
RECURSIVE Advance(_, _, _, _)
Advance(serverEntries, k, m, done) ==
    IF k > Len(serverEntries) THEN [idx |-> k, done |-> done]
    ELSE IF Has(m, serverEntries[k].name)
    THEN Advance(serverEntries, k + 1, m,
                 Append(done, Done(serverEntries[k].name, "skipped")))
    ELSE [idx |-> k, done |-> done]

\* line 100: blueprintId || this.blueprintId
BlueprintIdOf(id) == IF id # "" THEN id ELSE blueprintId

\* loadFromBlueprint up to `await fetchConfigFromApi(id)` (lines 99-107);
\* id = "" stands for no argument
LoadFromBlueprintBegin(t, id) ==
    /\ Free(t)
    /\ IF BlueprintIdOf(id) = ""
       THEN Step(clients, sess, task,
                 Throw("loadFromBlueprint", "", "NoBlueprintId"))
       ELSE Step(clients, sess,
                 [task EXCEPT ![t] =
                    [Idle EXCEPT !.op = "loadFromBlueprint",
                                 !.pc = "awaitFetch",
                                 !.alone = \A u \in Tasks \ {t} : Free(u)]],
                 NoRet)

\* loadFromBlueprint, with the call base, from the entry k of its
\* configuration up to its next await or to its return (lines 121-133 and
\* 147-210).  The entries the registry has are skipped; for the first other
\* entry connectToServer is called, and `await this.connectToServer(...)`
\* (line 130) yields also when connectToServer throws before its own await.
LoadLoop(t, base, k) ==
    LET a == Advance(base.config, k, clients, base.results)
        entry == base.config[a.idx]
    IN IF a.idx > Len(base.config)
       THEN Step(clients, sess, [task EXCEPT ![t] = Idle],
                 [Settle("loadFromBlueprint", "", "ok", a.done)
                    EXCEPT !.config = base.config, !.names = base.names,
                           !.alone = base.alone])
       ELSE IF TransportError(entry.params) # "ok"
       THEN Step(clients, sess,
                 [task EXCEPT ![t] =
                    [base EXCEPT !.pc = "caught", !.idx = a.idx,
                                 !.name = entry.name,
                                 !.results =
                                    Append(a.done,
                                           Done(entry.name,
                                                TransportError(entry.params)))]],
                 NoRet)
       ELSE /\ \E x \in Sids : sess[x].st = "unused"
            /\ Step(clients,
                    [sess EXCEPT ![NewSid(sess)] =
                        [st |-> "connecting", closeCalled |-> FALSE]],
                    [task EXCEPT ![t] =
                        [base EXCEPT !.pc = "awaitConnect", !.idx = a.idx,
                                     !.name = entry.name,
                                     !.params = entry.params,
                                     !.transport = TransportType(entry.params),
                                     !.results = a.done,
                                     !.client = NewSid(sess)]],
                    NoRet)

\* the continuation of `await fetchConfigFromApi(id)` (lines 107-133): the
\* fetch failed or brought the configuration mcpServers.  names keeps the
\* registry of this moment.
LoadFromBlueprintFetched(t, ok, mcpServers) ==
    /\ task[t].op = "loadFromBlueprint"
    /\ task[t].pc = "awaitFetch"
    /\ IF ~ok
       THEN Step(clients, sess, [task EXCEPT ![t] = Idle],
                 Throw("loadFromBlueprint", "", "FetchFailed"))
       ELSE LoadLoop(t, [task[t] EXCEPT !.config = Entries(mcpServers),
                                        !.names = clients],
                     1)

\* the continuation of `await client.connect(transport)` inside the
\* connectToServer that loadFromBlueprint awaits (lines 210-222):
\* connectToServer settles, and loadFromBlueprint goes on in a later turn
LoadFromBlueprintConnected(t, ok) ==
    /\ task[t].op = "loadFromBlueprint"
    /\ task[t].pc = "awaitConnect"
    /\ Step(ConnectStore(clients, task[t].name, task[t].client, ok),
            [sess EXCEPT ![task[t].client].st =
                IF ok THEN "open" ELSE "failed"],
            [task EXCEPT ![t] =
                [task[t] EXCEPT !.pc = IF ok THEN "loop" ELSE "caught",
                                !.client = 0,
                                !.results =
                                    Append(@, Done(task[t].name,
                                                   IF ok THEN "connected"
                                                   ELSE "ConnectionFailed"))]],
            NoRet)

\* the continuation of `await this.connectToServer(...)` (lines 130-141):
\* the catch block when it threw, and the next iteration of the loop
LoadFromBlueprintLoop(t) ==
    /\ task[t].op = "loadFromBlueprint"
    /\ task[t].pc \in {"loop", "caught"}
    /\ LoadLoop(t, task[t],
                IF task[t].pc = "caught"
                THEN AfterConnectError(task[t].config, task[t].idx)
                ELSE task[t].idx + 1)

\* ------------------------------------------- disconnectServer, disconnectAll
\* disconnectServer up to `await client.close()` (lines 394-404), run by
\* the call `base` for the name n; the close() call is recorded on the Client.
\* Without an entry disconnectServer throws (lines 396-400): a
\* disconnectServer call is then rejected, and a disconnectAll, which awaits
\* the disconnectServer (line 425), goes on with the rejection in a later
\* turn.
CloseBegin(t, base, n) ==
    IF ~Has(clients, n)
    THEN IF base.op = "disconnectAll"
         THEN Step(clients, sess,
                   [task EXCEPT ![t] =
                      [base EXCEPT !.name = n, !.pc = "thrown",
                                   !.client = 0]],
                   NoRet)
         ELSE Step(clients, sess, [task EXCEPT ![t] = Idle],
                   Throw(base.op, n, "NotConnected"))
    ELSE Step(clients,
              [sess EXCEPT ![Get(clients, n)].closeCalled = TRUE],
              [task EXCEPT ![t] =
                  [base EXCEPT !.name = n, !.pc = "awaitClose",
                               !.client = Get(clients, n)]],
              NoRet)

DisconnectBegin(t, n) ==
    /\ Free(t)
    /\ CloseBegin(t, [Idle EXCEPT !.op = "disconnect"], n)

\* a disconnectServer that never deletes the entry
AfterCloseKeeping(m, n, ok) == m

\* the registry after `await client.close()` (lines 404-416): the entry is
\* deleted only when close() resolved
AfterClose(m, n, ok) == IF ok THEN MapDelete(m, n) ELSE m

\* the state of a Client after close(): a close that fails leaves it as it was
Closed(s, ok) == IF ok THEN [s EXCEPT !.st = "closed"] ELSE s

\* the continuation of `await client.close()` in disconnectServer
DisconnectResolve(t, ok) ==
    /\ task[t].op = "disconnect"
    /\ task[t].pc = "awaitClose"
    /\ Step(AfterClose(clients, task[t].name, ok),
            [sess EXCEPT ![task[t].client] = Closed(@, ok)],
            [task EXCEPT ![t] = Idle],
            Throw("disconnect", task[t].name,
                  IF ok THEN "ok" ELSE "DisconnectFailed"))

\* disconnectAll: line 423 and the first iteration of the loop
DisconnectAllBegin(t) ==
    /\ Free(t)
    /\ LET base == [Idle EXCEPT !.op = "disconnectAll",
                                !.names = getConnectedServers(clients)]
       IN IF Len(base.names) = 0
          THEN Step(clients, sess, task, Throw("disconnectAll", "", "ok"))
          ELSE CloseBegin(t, [base EXCEPT !.idx = 1], base.names[1])

\* a disconnectAll that ends after its first disconnectServer
AfterDisconnectStopping(ok) == "throw"

\* what disconnectAll does when the disconnectServer it awaits has settled
\* (lines 424-426): "next" goes on with the loop, "throw" rejects
AfterDisconnect(ok) == IF ok THEN "next" ELSE "throw"

\* the continuation of `await client.close()` in the disconnectServer that
\* disconnectAll awaits (lines 404-416): disconnectServer settles, and
\* disconnectAll goes on in a later turn
DisconnectAllResolve(t, ok) ==
    /\ task[t].op = "disconnectAll"
    /\ task[t].pc = "awaitClose"
    /\ Step(AfterClose(clients, task[t].name, ok),
            [sess EXCEPT ![task[t].client] = Closed(@, ok)],
            [task EXCEPT ![t] =
                [task[t] EXCEPT !.pc = IF AfterDisconnect(ok) = "next"
                                       THEN "loop" ELSE "closeFailed",
                                !.client = 0]],
            NoRet)

\* the error of the disconnectServer that a disconnectAll at pc has awaited
DisconnectError(pc) ==
    IF pc = "thrown" THEN "NotConnected" ELSE "DisconnectFailed"

\* the continuation of `await this.disconnectServer(serverName)` in
\* disconnectAll (lines 424-426): the rejection of disconnectAll when
\* disconnectServer threw, else the next iteration of the loop or the return
DisconnectAllLoop(t) ==
    /\ task[t].op = "disconnectAll"
    /\ task[t].pc \in {"loop", "thrown", "closeFailed"}
    /\ IF task[t].pc # "loop"
       THEN Step(clients, sess, [task EXCEPT ![t] = Idle],
                 Throw("disconnectAll", task[t].name,
                       DisconnectError(task[t].pc)))
       ELSE IF task[t].idx = Len(task[t].names)
       THEN Step(clients, sess, [task EXCEPT ![t] = Idle],
                 Throw("disconnectAll", "", "ok"))
       ELSE CloseBegin(t, [task[t] EXCEPT !.idx = @ + 1],
                       task[t].names[task[t].idx + 1])

\* ---------------------------------------------------------------- callTool
\* getClient (lines 429-437): the Client of n, 0 when it throws
getClient(n) == Get(clients, n)

\* the toolName, args and result payloads of the calls of the model
ToolNames == {<<"r", "e", "a", "d", "F", "i", "l", "e">>, <<"n", "o", "n", "e">>}
Arguments == {"args1", "args2"}
Payloads == {"content", "isError"}

\* lines 321-324: the object handed to client.callTool
CallToolRequest(toolName, args) == [name |-> toolName, arguments |-> args]

\* callTool up to `await client.callTool(...)` (lines 315-324)
CallToolBegin(t, n, toolName, args) ==
    /\ Free(t)
    /\ LET input == [toolName |-> toolName, arguments |-> args]
       IN IF getClient(n) = 0
          THEN Step(clients, sess, task,
                    [Throw("callTool", n, "NotConnected")
                        EXCEPT !.input = input])
          ELSE Step(clients, sess,
                    [task EXCEPT ![t] =
                        [Idle EXCEPT !.op = "callTool", !.name = n,
                                     !.pc = "awaitReply",
                                     !.input = input,
                                     !.sent = <<CallToolRequest(toolName, args)>>,
                                     !.client = getClient(n)]],
                    NoRet)

\* a callTool that calls client.callTool again when it rejected
AfterCallToolRetrying(ok) == IF ok THEN "return" ELSE "retry"

\* line 321: what callTool does when client.callTool has settled: it returns
\* the result or lets the rejection through
AfterCallTool(ok) == IF ok THEN "return" ELSE "throw"

\* line 321, `return await ...`: the value callTool settles with when
\* client.callTool settled with reply
CallToolResult(reply) == reply

\* the error client.callTool rejects with
CallToolError == "error"

\* the continuation of `await client.callTool(...)`: the backend answers with
\* the payload or fails; a Client that is not open only fails
CallToolResolve(t, ok, payload) ==
    /\ task[t].op = "callTool"
    /\ task[t].pc = "awaitReply"
    /\ ok => sess[task[t].client].st = "open"
    /\ IF AfterCallTool(ok) = "retry"
       THEN /\ Len(task[t].sent) < 2
            /\ Step(clients, sess,
                    [task EXCEPT ![t].sent = Append(@, @[1])], NoRet)
       ELSE Step(clients, sess, [task EXCEPT ![t] = Idle],
                 [Settle("callTool", task[t].name,
                         IF ok THEN "ok" ELSE "InvocationFailed",
                         CallToolResult(IF ok THEN payload ELSE CallToolError))
                    EXCEPT !.input = task[t].input, !.sent = task[t].sent,
                           !.reply = IF ok THEN payload ELSE CallToolError])

\* =============================================================== search
\* ------------------------------------------------------------- the strings
\* A string is the sequence of its characters.
LowerCase ==
    <<"a", "b", "c", "d", "e", "f", "g", "h", "i", "j", "k", "l", "m",
      "n", "o", "p", "q", "r", "s", "t", "u", "v", "w", "x", "y", "z">>

UpperCase ==
    <<"A", "B", "C", "D", "E", "F", "G", "H", "I", "J", "K", "L", "M",
      "N", "O", "P", "Q", "R", "S", "T", "U", "V", "W", "X", "Y", "Z">>

\* the value of a field the backend did not send
Undefined == <<"undefined">>

\* JS truthiness of a string field: defined and not ""
Truthy(x) == x # Undefined /\ x # <<>>

\* --------------------------------------------------------------- RegExp
\* The patterns of the model are sequences of letters, of the assertion "^"
\* and of "(", which nothing closes.
\* `new RegExp(pattern, flags)` throws a SyntaxError
Compiles(p) == \A k \in DOMAIN p : p[k] # "("

\* the flag i: both characters are canonicalized (upper case) before comparing
Canonicalize(c) ==
    IF \E i \in DOMAIN LowerCase : LowerCase[i] = c
    THEN UpperCase[CHOOSE i \in DOMAIN LowerCase : LowerCase[i] = c]
    ELSE c

CharEq(a, b, ignoreCase) ==
    IF ignoreCase THEN Canonicalize(a) = Canonicalize(b) ELSE a = b

Literals(p) == SelectSeq(p, LAMBDA c : c # "^")

\* the pattern p matches the string s at the (0-based) index i: every "^"
\* must stand at index 0, every letter must equal the next character
MatchAt(p, s, i, ignoreCase) ==
    /\ \A k \in DOMAIN p :
            p[k] = "^" => i + Len(Literals(SubSeq(p, 1, k - 1))) = 0
    /\ i + Len(Literals(p)) <= Len(s)
    /\ \A j \in DOMAIN Literals(p) : CharEq(s[i + j], Literals(p)[j], ignoreCase)

\* `new RegExp(pattern, flags)`, flags a set of flag letters
RegExp(pattern, flags) ==
    [source |-> pattern, global |-> "g" \in flags, ignoreCase |-> "i" \in flags]

\* regex.test(s) with regex.lastIndex = lastIndex: whether a match is found,
\* and regex.lastIndex afterwards.  A global regex starts at lastIndex and
\* leaves the end of the match (0 without a match) in lastIndex.
Test(re, s, lastIndex) ==
    LET start == IF re.global THEN lastIndex ELSE 0
        hits == {i \in start..Len(s) : MatchAt(re.source, s, i, re.ignoreCase)}
        first == CHOOSE i \in hits : \A j \in hits : i <= j
    IN IF hits = {}
       THEN [found |-> FALSE, lastIndex |-> IF re.global THEN 0 ELSE lastIndex]
       ELSE [found |-> TRUE,
             lastIndex |-> IF re.global
                           THEN first + Len(Literals(re.source))
                           ELSE lastIndex]

\* ------------------------------------------------------------ the backends
\* a tool descriptor as the backend reports it
Tool(n, d) == [name |-> n, description |-> d, inputSchema |-> "schema"]

readFile == <<"r", "e", "a", "d", "F", "i", "l", "e">>
writeFile == <<"w", "r", "i", "t", "e", "F", "i", "l", "e">>
listDir == <<"l", "i", "s", "t", "D", "i", "r">>

\* the backend of the example: readFile, writeFile, listDir
FileTools ==
    <<Tool(readFile, <<"r", "e", "a", "d">>),
      Tool(writeFile, <<>>),
      Tool(listDir, Undefined)>>

\* a backend with a nameless tool, an empty name and upper-case text
OddTools ==
    <<Tool(Undefined, <<"F", "I", "L", "E">>),
      Tool(<<>>, <<"d", "i", "r">>),
      Tool(<<"f", "i", "l", "e">>, <<"r", "e", "a", "d", " ", "i", "t">>)>>

\* what a backend answers to tools/list: it fails, it answers without a
\* tools array, or it answers a list of tools
Fails == [kind |-> "fail", tools |-> <<>>]
Malformed == [kind |-> "malformed", tools |-> <<>>]
Lists(tools) == [kind |-> "tools", tools |-> tools]
NoTools == Lists(<<>>)

Behaviours == {Fails, Malformed, NoTools, Lists(FileTools), Lists(OddTools)}

\* the patterns the callers search for
Patterns ==
    {<<"^", "r", "e", "a", "d">>, <<"F", "i", "l", "e">>, <<"(">>,
     <<"d", "i", "r">>, <<"^">>, <<"r", "e", "(">>}

ArgSet ==
    [pattern : Patterns, searchIn : {"name", "description", "both"},
     caseSensitive : BOOLEAN]

\* `await client.listTools()` on the Client x of the name n
Response(n, x) == IF sess[x].st = "open" THEN backend[n] ELSE Fails

\* ------------------------------------------------------------ the filter
\* lines 292-296 and 367-370: toolsResponse.tools.filter(...), from the tool
\* k on, with regex.lastIndex = lastIndex before the tool k is tested
RECURSIVE Filter(_, _, _, _, _)
Filter(tools, k, re, lastIndex, searchIn) ==
    IF k > Len(tools) THEN <<>>
    ELSE LET tool == tools[k]
             nameMatch ==
                IF searchIn # "description" /\ Truthy(tool.name)
                THEN Test(re, tool.name, lastIndex)
                ELSE [found |-> FALSE, lastIndex |-> lastIndex]
             descriptionMatch ==
                IF searchIn # "name" /\ Truthy(tool.description)
                THEN Test(re, tool.description, nameMatch.lastIndex)
                ELSE [found |-> FALSE, lastIndex |-> nameMatch.lastIndex]
             rest == Filter(tools, k + 1, re, descriptionMatch.lastIndex, searchIn)
         IN IF nameMatch.found \/ descriptionMatch.found
            THEN <<tool>> \o rest ELSE rest

\* lines 299-302 and 371-374: .map(tool => ({name, description}))
Project(tools) ==
    [i \in DOMAIN tools |->
        [name |-> tools[i].name, description |-> tools[i].description]]

\* ------------------------------------------------------ findToolsInServer
\* line 289
FindToolsInServerFlags(caseSensitive) ==
    IF caseSensitive THEN {"g"} ELSE {"g", "i"}

\* findToolsInServer up to `await client.listTools()` (lines 276-283)
FindToolsInServerBegin(t, n, a) ==
    /\ Free(t)
    /\ IF getClient(n) = 0
       THEN Step(clients, sess, task,
                 [Throw("findToolsInServer", n, "NotConnected")
                    EXCEPT !.args = a])
       ELSE Step(clients, sess,
                 [task EXCEPT ![t] =
                    [Idle EXCEPT !.op = "findToolsInServer", !.name = n,
                                 !.pc = "awaitList", !.args = a,
                                 !.client = getClient(n), !.listed = 1]],
                 NoRet)

\* lines 285-302: what findToolsInServer settles with on the response r
FindToolsInServerResult(r, a) ==
    IF r.kind = "fail" THEN [outcome |-> "ListingFailed", value |-> <<>>]
    ELSE IF r.kind = "malformed" THEN [outcome |-> "ok", value |-> <<>>]
    ELSE IF ~Compiles(a.pattern)
    THEN [outcome |-> "InvalidPattern", value |-> <<>>]
    ELSE [outcome |-> "ok",
          value |-> Project(Filter(r.tools, 1,
                        RegExp(a.pattern, FindToolsInServerFlags(a.caseSensitive)),
                        0, a.searchIn))]

\* the continuation of `await client.listTools()` in findToolsInServer
FindToolsInServerResolve(t) ==
    /\ task[t].op = "findToolsInServer"
    /\ task[t].pc = "awaitList"
    /\ LET res == FindToolsInServerResult(
                      Response(task[t].name, task[t].client), task[t].args)
       IN Step(clients, sess, [task EXCEPT ![t] = Idle],
               [Settle("findToolsInServer", task[t].name, res.outcome, res.value)
                    EXCEPT !.args = task[t].args, !.listed = task[t].listed])

\* --------------------------------------------------------------- findTools
\* line 354
FindToolsFlags(caseSensitive) == IF caseSensitive THEN {} ELSE {"i"}

\* results[serverName] = value on the object results (keys in insertion order)
Put(results, n, value) ==
    IF \E i \in DOMAIN results : results[i].key = n
    THEN [i \in DOMAIN results |->
            IF results[i].key = n THEN [key |-> n, value |-> value]
            ELSE results[i]]
    ELSE Append(results, [key |-> n, value |-> value])

\* lines 382-384: the entry of a server whose listing threw
ErrorMarker(message) == <<[error |-> message]>>

\* lines 376-378: whether the matches of a server are stored
Stored(matchedTools) == Len(matchedTools) > 0

\* lines 363-385: the body of the loop once listTools(serverName) settled
\* with the response r
Scanned(results, n, r, a) ==
    IF r.kind = "fail" THEN Put(results, n, ErrorMarker("ListingFailed"))
    ELSE IF r.kind = "malformed" THEN results
    ELSE LET matchedTools ==
                Project(Filter(r.tools, 1,
                    RegExp(a.pattern, FindToolsFlags(a.caseSensitive)),
                    0, a.searchIn))
         IN IF Stored(matchedTools) THEN Put(results, n, matchedTools)
            ELSE results

\* what a this.listTools(n) call settled with: the response reply of the
\* backend, or the error of getClient
Listed(n, reply, error) == [name |-> n, reply |-> reply, error |-> error]

\* line 364: `await this.listTools(serverName)` for the server k of the
\* snapshot.  listTools gets the Client (line 229) and waits for
\* client.listTools() (line 230); when getClient throws, listTools is
\* rejected, and findTools goes on with the rejection in a later turn.
ScanCall(t, base, k) ==
    LET n == base.names[k]
    IN IF getClient(n) = 0
       THEN Step(clients, sess,
                 [task EXCEPT ![t] =
                    [base EXCEPT !.idx = k, !.name = n, !.pc = "listed",
                                 !.client = 0,
                                 !.listing =
                                    Append(@, Listed(n, Fails, "NotConnected"))]],
                 NoRet)
       ELSE Step(clients, sess,
                 [task EXCEPT ![t] =
                    [base EXCEPT !.idx = k, !.name = n, !.pc = "awaitList",
                                 !.client = getClient(n),
                                 !.listed = @ + 1]],
                 NoRet)

\* findTools up to the first `await this.listTools(serverName)`
\* (lines 337-364)
FindToolsBegin(t, a) ==
    /\ Free(t)
    /\ LET base == [Idle EXCEPT !.op = "findTools", !.args = a,
                                !.names = getConnectedServers(clients)]
           r == [Throw("findTools", "", "ok")
                    EXCEPT !.args = a, !.names = base.names]
       IN IF Len(base.names) = 0
          THEN Step(clients, sess, task, r)
          ELSE IF ~Compiles(a.pattern)
          THEN Step(clients, sess, task, [r EXCEPT !.outcome = "InvalidPattern"])
          ELSE ScanCall(t, base, 1)

\* the continuation of `await client.listTools()` in the listTools that
\* findTools awaits (line 230): listTools settles with the response, and
\* findTools goes on in a later turn
FindToolsListed(t) ==
    /\ task[t].op = "findTools"
    /\ task[t].pc = "awaitList"
    /\ Step(clients, sess,
            [task EXCEPT ![t] =
                [task[t] EXCEPT !.pc = "listed", !.client = 0,
                                !.listing =
                                    Append(@, Listed(task[t].name,
                                                     Response(task[t].name,
                                                              task[t].client),
                                                     ""))]],
            NoRet)

\* the continuation of `await this.listTools(serverName)` in findTools
\* (lines 364-388): the rest of the iteration and the loop up to the next
\* await or the return
FindToolsResolve(t) ==
    /\ task[t].op = "findTools"
    /\ task[t].pc = "listed"
    /\ LET last == task[t].listing[Len(task[t].listing)]
           results ==
                IF last.error # ""
                THEN Put(task[t].results, task[t].name, ErrorMarker(last.error))
                ELSE Scanned(task[t].results, task[t].name, last.reply,
                             task[t].args)
       IN IF task[t].idx = Len(task[t].names)
          THEN Step(clients, sess, [task EXCEPT ![t] = Idle],
                    [Settle("findTools", "", "ok", results)
                        EXCEPT !.args = task[t].args,
                               !.names = task[t].names,
                               !.listed = task[t].listed,
                               !.listing = task[t].listing])
          ELSE ScanCall(t, [task[t] EXCEPT !.results = results],
                        task[t].idx + 1)

\* --------------------------------------------------------------- listTools
\* listTools up to `await client.listTools()` (lines 228-230)
ListToolsBegin(t, n) ==
    /\ Free(t)
    /\ IF getClient(n) = 0
       THEN Step(clients, sess, task, Throw("listTools", n, "NotConnected"))
       ELSE Step(clients, sess,
                 [task EXCEPT ![t] =
                    [Idle EXCEPT !.op = "listTools", !.name = n,
                                 !.pc = "awaitList",
                                 !.client = getClient(n), !.listed = 1]],
                 NoRet)

\* line 230, `return await client.listTools()`: the response as it came
ListToolsResult(r) ==
    IF r.kind = "fail" THEN [outcome |-> "ListingFailed", value |-> <<>>]
    ELSE [outcome |-> "ok", value |-> r]

\* the continuation of `await client.listTools()` in listTools
ListToolsResolve(t) ==
    /\ task[t].op = "listTools"
    /\ task[t].pc = "awaitList"
    /\ LET res == ListToolsResult(Response(task[t].name, task[t].client))
       IN Step(clients, sess, [task EXCEPT ![t] = Idle],
               [Settle("listTools", task[t].name, res.outcome, res.value)
                    EXCEPT !.listed = task[t].listed])

\* ------------------------------------------------------- listToolsInServer
\* listToolsInServer up to `await client.listTools()` (lines 256-258)
ListToolsInServerBegin(t, n) ==
    /\ Free(t)
    /\ IF getClient(n) = 0
       THEN Step(clients, sess, task,
                 Throw("listToolsInServer", n, "NotConnected"))
       ELSE Step(clients, sess,
                 [task EXCEPT ![t] =
                    [Idle EXCEPT !.op = "listToolsInServer", !.name = n,
                                 !.pc = "awaitList",
                                 !.client = getClient(n), !.listed = 1]],
                 NoRet)

\* a summary that keeps the names only
ProjectNames(tools) ==
    [i \in DOMAIN tools |-> [name |-> tools[i].name, description |-> Undefined]]

\* lines 266-269: .map(tool => ({name, description}))
Summary(tools) == Project(tools)

\* lines 260-270: what listToolsInServer settles with on the response r
ListToolsInServerResult(r) ==
    IF r.kind = "fail" THEN [outcome |-> "ListingFailed", value |-> <<>>]
    ELSE IF r.kind = "malformed"
    THEN [outcome |-> "ok", value |-> [tools |-> <<>>]]
    ELSE [outcome |-> "ok", value |-> [tools |-> Summary(r.tools)]]

\* the continuation of `await client.listTools()` in listToolsInServer
ListToolsInServerResolve(t) ==
    /\ task[t].op = "listToolsInServer"
    /\ task[t].pc = "awaitList"
    /\ LET res == ListToolsInServerResult(
                      Response(task[t].name, task[t].client))
       IN Step(clients, sess, [task EXCEPT ![t] = Idle],
               [Settle("listToolsInServer", task[t].name,
                       res.outcome, res.value)
                    EXCEPT !.listed = task[t].listed])

\* ----------------------------------------------------------------- getTool
\* getTool up to `await client.listTools()` (lines 236-238)
GetToolBegin(t, n, toolName) ==
    /\ Free(t)
    /\ LET input == [NoRequest EXCEPT !.toolName = toolName]
       IN IF getClient(n) = 0
          THEN Step(clients, sess, task,
                    [Throw("getTool", n, "NotConnected") EXCEPT !.input = input])
          ELSE Step(clients, sess,
                    [task EXCEPT ![t] =
                        [Idle EXCEPT !.op = "getTool", !.name = n,
                                     !.pc = "awaitList", !.input = input,
                                     !.client = getClient(n), !.listed = 1]],
                    NoRet)

\* a find that compares the names without regard to case
FindIgnoringCase(tools, toolName) ==
    LET hits == {k \in DOMAIN tools :
                    /\ tools[k].name # Undefined
                    /\ Len(tools[k].name) = Len(toolName)
                    /\ \A j \in DOMAIN toolName :
                            CharEq(tools[k].name[j], toolName[j], TRUE)}
    IN IF hits = {} THEN 0 ELSE CHOOSE k \in hits : \A j \in hits : k <= j

\* line 244: tools.find(t => t.name === toolName), as the index of the tool
\* found, 0 for undefined
Find(tools, toolName) ==
    LET hits == {k \in DOMAIN tools : tools[k].name = toolName}
    IN IF hits = {} THEN 0 ELSE CHOOSE k \in hits : \A j \in hits : k <= j

\* lines 240-250: what getTool settles with on the response r
GetToolResult(r, toolName) ==
    IF r.kind = "fail" THEN [outcome |-> "ListingFailed", value |-> <<>>]
    ELSE IF r.kind = "malformed"
    THEN [outcome |-> "NoToolsFound", value |-> <<>>]
    ELSE IF Find(r.tools, toolName) = 0
    THEN [outcome |-> "CapabilityNotFound", value |-> <<>>]
    ELSE [outcome |-> "ok", value |-> r.tools[Find(r.tools, toolName)]]

\* the continuation of `await client.listTools()` in getTool
GetToolResolve(t) ==
    /\ task[t].op = "getTool"
    /\ task[t].pc = "awaitList"
    /\ LET res == GetToolResult(Response(task[t].name, task[t].client),
                                task[t].input.toolName)
       IN Step(clients, sess, [task EXCEPT ![t] = Idle],
               [Settle("getTool", task[t].name, res.outcome, res.value)
                    EXCEPT !.input = task[t].input,
                           !.listed = task[t].listed])

\* ------------------------------------------------------------- listServers
\* a listServers that takes the names out of the Map
ListServersDraining(t) ==
    /\ Free(t)
    /\ Step(<<>>, sess, task,
            Settle("listServers", "", "ok", getConnectedServers(clients)))

\* lines 308-310
ListServers(t) ==
    /\ Free(t)
    /\ Step(clients, sess, task,
            Settle("listServers", "", "ok", getConnectedServers(clients)))

\* ------------------------------------------------ lifecycle specification
\* the tool the callers of the lifecycle specification invoke
SomeTool == <<"r", "e", "a", "d", "F", "i", "l", "e">>

\* the blueprint ids: none, and one
BlueprintIds == {"", "blueprint"}

\* the call slot that holds the loadFromBlueprint the constructor starts
Loader == "t1"

\* the manager after `new McpServerManager(options)` (lines 71-94), with
\* options.blueprintId = id, options.autoLoad = autoLoad and found the
\* result of findBlueprintId(); "" stands for undefined.  With autoLoad and
\* a blueprint id the constructor has called loadFromBlueprint, which runs up
\* to its `await fetchConfigFromApi(id)` (line 107) before the constructor
\* returns.
Constructed(id, autoLoad, found) ==
    /\ clients = <<>>
    /\ sess = [s \in Sids |-> NoSession]
    /\ blueprintId = (IF id # "" THEN id ELSE found)
    /\ task = [t \in Tasks |->
                IF t = Loader /\ autoLoad /\ blueprintId # ""
                THEN [Idle EXCEPT !.op = "loadFromBlueprint",
                                  !.pc = "awaitFetch"]
                ELSE Idle]
    /\ ret = NoRet
    /\ backend = [n \in Names |-> NoTools]

\* `new McpServerManager()` where no blueprint id is found: nothing is loaded
Init == Constructed("", FALSE, "")

Next ==
    \/ \E t \in Tasks, n \in Names, p \in SomeParams : ConnectBegin(t, n, p)
    \/ \E t \in Tasks, ok \in BOOLEAN : ConnectResolve(t, ok)
    \/ \E t \in Tasks, n \in Names : DisconnectBegin(t, n)
    \/ \E t \in Tasks, ok \in BOOLEAN : DisconnectResolve(t, ok)
    \/ \E t \in Tasks : DisconnectAllBegin(t)
    \/ \E t \in Tasks, ok \in BOOLEAN : DisconnectAllResolve(t, ok)
    \/ \E t \in Tasks : DisconnectAllLoop(t)
    \/ \E t \in Tasks, n \in Names : CallToolBegin(t, n, SomeTool, "args1")
    \/ \E t \in Tasks, ok \in BOOLEAN : CallToolResolve(t, ok, "content")

Spec == Init /\ [][Next]_vars

\* ---------------------------------------------------- order specification
\* two callers connect and disconnect three names, so that a call on one
\* name runs next to a registry with two other names
OrderNames == Names \cup {"c"}

OrderNext ==
    \/ \E t \in Tasks, n \in OrderNames : ConnectBegin(t, n, StdioParams)
    \/ \E t \in Tasks, ok \in BOOLEAN : ConnectResolve(t, ok)
    \/ \E t \in Tasks, n \in OrderNames : DisconnectBegin(t, n)
    \/ \E t \in Tasks, ok \in BOOLEAN : DisconnectResolve(t, ok)

OrderSpec == Init /\ [][OrderNext]_vars

\* --------------------------------------------------- search specification
\* the caller of the searches
Searcher == "t1"

\* the registries the searches run on: every sequence of distinct names,
\* each name with an open Client of its own
Registries ==
    {<<>>} \cup {<<Entry(n, 1)>> : n \in Names}
           \cup {<<Entry(e[1], 1), Entry(e[2], 2)>> :
                    e \in {d \in Names \X Names : d[1] # d[2]}}

SearchInit ==
    /\ clients \in Registries
    /\ sess = [x \in Sids |->
                IF x <= Len(clients)
                THEN [st |-> "open", closeCalled |-> FALSE] ELSE NoSession]
    /\ task = [t \in Tasks |-> Idle]
    /\ ret = NoRet
    /\ backend \in [Names -> Behaviours]
    /\ blueprintId = ""

SearchNext ==
    \/ \E n \in Names, a \in ArgSet : FindToolsInServerBegin(Searcher, n, a)
    \/ FindToolsInServerResolve(Searcher)
    \/ \E a \in ArgSet : FindToolsBegin(Searcher, a)
    \/ FindToolsListed(Searcher)
    \/ FindToolsResolve(Searcher)

SearchSpec == SearchInit /\ [][SearchNext]_vars

\* ----------------------------------------------------- scan specification
\* a caller scans every backend with findTools while a second caller
\* disconnects and connects the backends
Manager == "t2"

\* what the backends of the scan specification answer
ScanBehaviours == {Fails, Malformed, Lists(FileTools), Lists(OddTools)}

\* the searches of the scan specification
ScanArgs ==
    {[pattern |-> <<"F", "i", "l", "e">>, searchIn |-> "both",
      caseSensitive |-> FALSE],
     [pattern |-> <<"^">>, searchIn |-> "description",
      caseSensitive |-> TRUE],
     [pattern |-> <<"d", "i", "r">>, searchIn |-> "name",
      caseSensitive |-> FALSE]}

ScanInit ==
    /\ clients \in Registries
    /\ sess = [x \in Sids |->
                IF x <= Len(clients)
                THEN [st |-> "open", closeCalled |-> FALSE] ELSE NoSession]
    /\ task = [t \in Tasks |-> Idle]
    /\ ret = NoRet
    /\ backend \in [Names -> ScanBehaviours]
    /\ blueprintId = ""

ScanNext ==
    \/ \E a \in ScanArgs : FindToolsBegin(Searcher, a)
    \/ FindToolsListed(Searcher)
    \/ FindToolsResolve(Searcher)
    \/ \E n \in Names : DisconnectBegin(Manager, n)
    \/ \E ok \in BOOLEAN : DisconnectResolve(Manager, ok)
    \/ \E n \in Names : ConnectBegin(Manager, n, StdioParams)
    \/ \E ok \in BOOLEAN : ConnectResolve(Manager, ok)

ScanSpec == ScanInit /\ [][ScanNext]_vars

\* -------------------------------------------------- catalog specification
\* the caller of the reads, next to the caller of the lifecycle operations
Reader == "t1"

lowerReadFile == <<"r", "e", "a", "d", "f", "i", "l", "e">>

\* a backend that reports the same name more than once, and a name that
\* differs from it in case only
DupTools ==
    <<Tool(lowerReadFile, <<"l", "o", "w", "e", "r">>),
      Tool(readFile, <<"f", "i", "r", "s", "t">>),
      Tool(readFile, Undefined),
      Tool(Undefined, <<"n", "o", "n", "e">>)>>

CatalogBehaviours ==
    {Fails, Malformed, NoTools, Lists(FileTools), Lists(DupTools)}

\* what the backends of the catalog specification answer: every behaviour
\* for the first name, next to a second backend that lists or fails
CatalogBackends ==
    {f \in [Names -> CatalogBehaviours] :
        f["b"] \in {Fails, Lists(FileTools)}}

\* the names getTool is asked for
GetNames == ToolNames \cup {lowerReadFile}

\* the searches of the reader
CatalogArgs ==
    {[pattern |-> <<"F", "i", "l", "e">>, searchIn |-> "both",
      caseSensitive |-> FALSE],
     [pattern |-> <<"(">>, searchIn |-> "name", caseSensitive |-> TRUE]}

CatalogInit ==
    /\ clients = <<>>
    /\ sess = [x \in Sids |-> NoSession]
    /\ task = [t \in Tasks |-> Idle]
    /\ ret = NoRet
    /\ backend \in CatalogBackends
    /\ blueprintId = ""

CatalogNext ==
    \/ \E n \in Names, p \in SomeParams : ConnectBegin(Manager, n, p)
    \/ \E ok \in BOOLEAN : ConnectResolve(Manager, ok)
    \/ \E n \in Names : DisconnectBegin(Manager, n)
    \/ \E ok \in BOOLEAN : DisconnectResolve(Manager, ok)
    \/ ListServers(Reader)
    \/ \E n \in Names : ListToolsBegin(Reader, n)
    \/ ListToolsResolve(Reader)
    \/ \E n \in Names : ListToolsInServerBegin(Reader, n)
    \/ ListToolsInServerResolve(Reader)
    \/ \E n \in Names, c \in GetNames : GetToolBegin(Reader, n, c)
    \/ GetToolResolve(Reader)
    \/ \E n \in Names, a \in CatalogArgs : FindToolsInServerBegin(Reader, n, a)
    \/ FindToolsInServerResolve(Reader)
    \/ \E a \in CatalogArgs : FindToolsBegin(Reader, a)
    \/ FindToolsListed(Reader)
    \/ FindToolsResolve(Reader)
    \/ \E n \in Names, c \in ToolNames, a \in Arguments :
            CallToolBegin(Reader, n, c, a)
    \/ \E ok \in BOOLEAN, payload \in Payloads :
            CallToolResolve(Reader, ok, payload)

CatalogSpec == CatalogInit /\ [][CatalogNext]_vars

\* ---------------------------------------------------- setup specification
\* the one caller of the setup specification: its calls never overlap
Operator == "t1"

SetupInit == Init

\* the steps of the operator but the end of a close() of disconnectAll
SetupCalls ==
    \/ \E n \in Names, p \in ParamSet : ConnectBegin(Operator, n, p)
    \/ \E ok \in BOOLEAN : ConnectResolve(Operator, ok)
    \/ \E n \in Names : DisconnectBegin(Operator, n)
    \/ \E ok \in BOOLEAN : DisconnectResolve(Operator, ok)
    \/ DisconnectAllBegin(Operator)
    \/ DisconnectAllLoop(Operator)
    \/ \E id \in BlueprintIds : LoadFromBlueprintBegin(Operator, id)
    \/ \E ok \in BOOLEAN, mcpServers \in Configs :
            LoadFromBlueprintFetched(Operator, ok, mcpServers)
    \/ \E ok \in BOOLEAN : LoadFromBlueprintConnected(Operator, ok)
    \/ LoadFromBlueprintLoop(Operator)

SetupNext ==
    \/ SetupCalls
    \/ \E ok \in BOOLEAN : DisconnectAllResolve(Operator, ok)

SetupSpec == SetupInit /\ [][SetupNext]_vars

\* ------------------------------------------------ bootstrap specification
\* a manager constructed with any options, the loadFromBlueprint of its
\* constructor or of a later call without an argument, and a second caller
\* that connects and disconnects, with closes that succeed, while the load is
\* in flight
Other == "t2"

\* the configurations of the bootstrap specification: servers that connect
\* over stdio and servers that have neither a command nor a URL
BootConfigs ==
    {c \in Configs :
        \A i \in DOMAIN c : c[i].params.url = ""}

BootInit ==
    \E id \in BlueprintIds, autoLoad \in BOOLEAN, found \in BlueprintIds :
        Constructed(id, autoLoad, found)

BootNext ==
    \/ LoadFromBlueprintBegin(Loader, "")
    \/ \E ok \in BOOLEAN, mcpServers \in BootConfigs :
            LoadFromBlueprintFetched(Loader, ok, mcpServers)
    \/ \E ok \in BOOLEAN : LoadFromBlueprintConnected(Loader, ok)
    \/ LoadFromBlueprintLoop(Loader)
    \/ \E n \in Names : ConnectBegin(Other, n, StdioParams)
    \/ \E ok \in BOOLEAN : ConnectResolve(Other, ok)
    \/ \E n \in Names : DisconnectBegin(Other, n)
    \/ DisconnectResolve(Other, TRUE)

BootSpec == BootInit /\ [][BootNext]_vars

\* ------------------------------------------------- teardown specification
\* the setup specification with backends whose close() inside disconnectAll
\* succeeds
TeardownNext ==
    \/ SetupCalls
    \/ DisconnectAllResolve(Operator, TRUE)

\* every close() settles, and every continuation of disconnectAll runs
TeardownSpec ==
    /\ SetupInit
    /\ [][TeardownNext]_vars
    /\ WF_vars(DisconnectAllResolve(Operator, TRUE))
    /\ WF_vars(DisconnectAllLoop(Operator))

\* =================================================== lifecycle properties
\* the Client x is the value of a registry entry
Registered(x) == \E i \in DOMAIN clients : clients[i].sid = x

\* C1: every open Session is the registry's entry of its name, so that at
\* most one Session is open per name and two overlapping connects of one name
\* never leave a second open Session behind.
C1_EveryOpenSessionRegistered ==
    \A x \in Sids : sess[x].st = "open" => Registered(x)

\* C2: no invoke is in flight on a Session whose close has started or
\* finished.
C2_NoCloseUnderInvoke ==
    \A t \in Tasks :
        task[t].pc = "awaitReply"
            => (~sess[task[t].client].closeCalled
                /\ sess[task[t].client].st = "open")

\* C3: a disconnect that ends with DisconnectFailed has removed its name from
\* the registry.
C3_FailedCloseRemovesEntry ==
    (ret.op = "disconnect" /\ ret.outcome = "DisconnectFailed")
        => ~Has(clients, ret.name)

\* the number of names of its snapshot that disconnectAll has tried to
\* disconnect once the step it is about to take is done
Attempted(t) ==
    IF task[t].pc = "loop" /\ task[t].idx < Len(task[t].names)
    THEN task[t].idx + 1 ELSE task[t].idx

\* C4: when disconnectAll returns, it has tried to disconnect every name that
\* was registered when it started, whatever the outcome of the earlier ones.
C4_DisconnectAllTriesEveryName ==
    [][\A t \in Tasks :
        (task[t].op = "disconnectAll" /\ task'[t].pc = "idle")
            => Attempted(t) = Len(task[t].names)]_vars

\* the sequence q without the name n
Without(q, n) == SelectSeq(q, LAMBDA m : m # n)

\* C8: a connect(n) that succeeds leaves n in listNames() exactly once and as
\* the last element, the other names keeping their order.
C8_ConnectAppendsName ==
    [][\A t \in Tasks :
        (task[t].pc = "awaitConnect" /\ task'[t].pc = "idle"
         /\ ret'.outcome = "ok")
            => LET before == getConnectedServers(clients)
                   after == getConnectedServers(clients')
                   n == task[t].name
               IN /\ after # <<>>
                  /\ after[Len(after)] = n
                  /\ Cardinality({i \in DOMAIN after : after[i] = n}) = 1
                  /\ Without(after, n) = Without(before, n)]_vars

\* C9: a connect(n, p) on a registered n fails with AlreadyConnected for every
\* p (it never goes on to open a Session), creates no Client and leaves the
\* registry (entries, Sessions, order) as it was.
C9_ConnectOnPresentRejected ==
    [][/\ \A t \in Tasks :
            (Free(t) /\ task'[t].pc = "awaitConnect")
                => ~Has(clients, task'[t].name)
       /\ (task' = task /\ ret'.op = "connect" /\ Has(clients, ret'.name))
            => /\ ret'.outcome = "AlreadyConnected"
               /\ clients' = clients
               /\ sess' = sess]_vars

\* a connect of a registered name was rejected
C9_Witness ==
    /\ ret.op = "connect"
    /\ ret.outcome = "AlreadyConnected"
    /\ Has(clients, ret.name)

\* C10: a connect(n) that ends with ConnectionFailed leaves the registry as
\* it was, and n is not in listNames() afterwards.
C10_FailedConnectLeavesNameAbsent ==
    [][(ret'.op = "connect" /\ ret'.outcome = "ConnectionFailed")
            => /\ clients' = clients
               /\ ~Has(clients', ret'.name)]_vars

\* C16: no two calls in flight hold the same Client for closing, so that
\* close() is called at most once on a Client and the second of two
\* overlapping disconnects of a name fails with NotConnected.
C16_OneCloserPerSession ==
    \A t, u \in Tasks :
        (t # u /\ task[t].pc = "awaitClose" /\ task[u].pc = "awaitClose")
            => task[t].client # task[u].client

\* the calls that change the registry entry of one name
LifecycleOps == {"connect", "disconnect"}

\* the step is a step of a connect or a disconnect of the name n
LifecycleStepOn(n) ==
    \/ ret'.op \in LifecycleOps /\ ret'.name = n
    \/ \E t \in Tasks :
        /\ task'[t] # task[t]
        /\ \/ task[t].op \in LifecycleOps /\ task[t].name = n
           \/ task'[t].op \in LifecycleOps /\ task'[t].name = n

\* C18: a step of connect(n) or of disconnect(n), whatever its outcome and
\* whatever else is in flight, leaves every other name m as it was:
\* registered or not, bound to the same Client, the Client untouched, and the
\* other names in the same order in listNames().  (A step that changes
\* neither the registry nor a registered Client leaves every name as it was.)
C18_OtherNamesUntouched ==
    [][\/ /\ clients' = clients
          /\ \A i \in DOMAIN clients :
                sess'[clients[i].sid] = sess[clients[i].sid]
       \/ \A n \in OrderNames :
            LifecycleStepOn(n)
                => /\ \A m \in OrderNames \ {n} :
                        /\ Has(clients', m) = Has(clients, m)
                        /\ Get(clients', m) = Get(clients, m)
                        /\ Has(clients, m)
                            => sess'[Get(clients, m)] = sess[Get(clients, m)]
                   /\ Without(getConnectedServers(clients'), n)
                        = Without(getConnectedServers(clients), n)]_vars

\* a disconnect of one of three registered names has succeeded, and the two
\* other names are registered in the order they had
C18_Witness ==
    /\ ret.op = "disconnect"
    /\ ret.outcome = "ok"
    /\ ret.name = "b"
    /\ getConnectedServers(clients) = <<"c", "a">>

\* ====================================================== search properties
IsSearch(op) == op \in {"findTools", "findToolsInServer"}

\* C5: a search whose pattern does not compile fails with InvalidPattern and
\* has issued no listing call, in both forms and on every registry.
C5_InvalidPatternTouchesNoBackend ==
    /\ \A t \in Tasks :
            (IsSearch(task[t].op) /\ ~Compiles(task[t].args.pattern))
                => task[t].listed = 0
    /\ (IsSearch(ret.op) /\ ~Compiles(ret.args.pattern))
            => (ret.outcome = "InvalidPattern" /\ ret.listed = 0)

\* a field is present: the backend sent it (a description may be absent; an
\* empty string is a string)
Present(x) == x # Undefined

\* the pattern matches the string s somewhere
Found(s, a) ==
    \E i \in 0..Len(s) : MatchAt(a.pattern, s, i, ~a.caseSensitive)

\* the descriptor d matches the search a
Matches(d, a) ==
    \/ a.searchIn \in {"name", "both"} /\ Present(d.name) /\ Found(d.name, a)
    \/ /\ a.searchIn \in {"description", "both"}
       /\ Present(d.description)
       /\ Found(d.description, a)

\* the {name, description} pairs of the matching descriptors, in listing order
MatchesOf(tools, a) ==
    LET hit == SelectSeq(tools, LAMBDA d : Matches(d, a))
    IN [i \in DOMAIN hit |->
            [name |-> hit[i].name, description |-> hit[i].description]]

\* C6: a single-backend search returns, in listing order, the projection of
\* exactly the descriptors that match, each descriptor judged on its own.
C6_SingleSearchReturnsMatches ==
    (ret.op = "findToolsInServer" /\ ret.outcome = "ok"
     /\ backend[ret.name].kind = "tools")
        => ret.value = MatchesOf(backend[ret.name].tools, ret.args)

HasKey(results, n) == \E i \in DOMAIN results : results[i].key = n

ValueOf(results, n) ==
    results[CHOOSE i \in DOMAIN results : results[i].key = n].value

\* the error marker of a listing that settled with l
MarkerOf(l) ==
    <<[error |-> IF l.error # "" THEN l.error ELSE "ListingFailed"]>>

\* C7: a multi-backend search with a valid pattern succeeds, whatever the
\* backends answer and whatever other calls do meanwhile; it has asked every
\* backend that was connected when the scan started for its listing, in
\* order, and such a backend has a key in the result exactly when its listing
\* call failed (the value is one error marker carrying the failure) or its
\* listing has a matching descriptor (the value is the projection of its
\* matching descriptors, in listing order); the result has no other keys and
\* no key twice.
C7_MultiSearchIsolatesBackends ==
    (ret.op = "findTools" /\ Compiles(ret.args.pattern))
        => /\ ret.outcome = "ok"
           /\ Len(ret.listing) = Len(ret.names)
           /\ \A i \in DOMAIN ret.value :
                /\ \E k \in DOMAIN ret.names : ret.names[k] = ret.value[i].key
                /\ \A j \in DOMAIN ret.value :
                        ret.value[j].key = ret.value[i].key => j = i
           /\ \A k \in DOMAIN ret.names :
                LET b == ret.names[k]
                    l == ret.listing[k]
                IN /\ l.name = b
                   /\ IF l.error # "" \/ l.reply.kind = "fail"
                      THEN /\ HasKey(ret.value, b)
                           /\ ValueOf(ret.value, b) = MarkerOf(l)
                      ELSE IF /\ l.reply.kind = "tools"
                              /\ MatchesOf(l.reply.tools, ret.args) # <<>>
                      THEN /\ HasKey(ret.value, b)
                           /\ ValueOf(ret.value, b)
                                = MatchesOf(l.reply.tools, ret.args)
                      ELSE ~HasKey(ret.value, b)

\* ===================================================== catalog properties
\* the reads of one backend
ReadOps ==
    {"callTool", "listTools", "listToolsInServer", "getTool",
     "findToolsInServer"}

\* C11: disconnect(n) on an unregistered n fails with NotConnected and changes
\* nothing; a successful disconnect(n) leaves n unregistered, n stays
\* unregistered until a connect(n) succeeds, listNames() returns the
\* registered names only, and every read of one backend that begins while n
\* is unregistered fails with NotConnected without a request to any Session.
C11_DisconnectedNameIsGone ==
    [][/\ \A t \in Tasks :
            (Free(t) /\ task'[t].pc = "awaitClose"
             /\ task'[t].op = "disconnect")
                => Has(clients, task'[t].name)
       /\ (task' = task /\ ret'.op = "disconnect")
            => /\ ~Has(clients, ret'.name)
               /\ ret'.outcome = "NotConnected"
               /\ clients' = clients
               /\ sess' = sess
       /\ (ret'.op = "disconnect" /\ ret'.outcome = "ok")
            => ~Has(clients', ret'.name)
       /\ \A n \in Names :
            (~Has(clients, n) /\ Has(clients', n))
                => (ret'.op = "connect" /\ ret'.outcome = "ok"
                    /\ ret'.name = n)
       /\ ret'.op = "listServers"
            => \A i \in DOMAIN ret'.value : Has(clients, ret'.value[i])
       /\ \A t \in Tasks :
            (Free(t) /\ task'[t].op \in ReadOps)
                => Has(clients, task'[t].name)
       /\ (task' = task /\ ret'.op \in ReadOps /\ ~Has(clients, ret'.name))
            => /\ ret'.outcome = "NotConnected"
               /\ ret'.listed = 0
               /\ ret'.sent = <<>>
               /\ sess' = sess]_vars

\* a disconnect has just succeeded while no read is in flight
C11_Witness ==
    /\ ret.op = "disconnect"
    /\ ret.outcome = "ok"
    /\ ~Has(clients, ret.name)
    /\ Free(Reader)
\* C13: listTools(n) returns what the backend reports, and for the same
\* report listToolsInServer(n) returns as many elements in the same order,
\* the i-th being the name and the description of the i-th descriptor; when
\* the report has no tools or no tools array it returns the empty sequence,
\* and it fails only when n is not connected or the listing call fails.
C13_SummaryProjectsListing ==
    /\ (ret.op = "listTools" /\ ret.outcome = "ok")
            => ret.value = backend[ret.name]
    /\ (ret.op = "listToolsInServer"
        /\ ret.outcome \notin {"NotConnected", "ListingFailed"})
            => LET full == backend[ret.name]
               IN /\ ret.outcome = "ok"
                  /\ full.kind = "malformed" => ret.value.tools = <<>>
                  /\ full.kind = "tools"
                        => /\ Len(ret.value.tools) = Len(full.tools)
                           /\ \A i \in DOMAIN full.tools :
                                /\ ret.value.tools[i].name = full.tools[i].name
                                /\ ret.value.tools[i].description
                                        = full.tools[i].description
                                /\ DOMAIN ret.value.tools[i]
                                        = {"name", "description"}

\* a summary of three tools, one of them without a description
C13_Witness ==
    /\ ret.op = "listToolsInServer"
    /\ ret.outcome = "ok"
    /\ Len(ret.value.tools) = 3
    /\ \E i \in DOMAIN ret.value.tools :
            ret.value.tools[i].description = Undefined

\* C14: getTool(n, c) fails with NotConnected when n is not registered; on a
\* registered n whose backend reports the listing L it returns the first
\* descriptor of L whose name is exactly c, whole, and fails with
\* CapabilityNotFound when L has no such descriptor (L empty included); it
\* never succeeds on a report without a listing.
C14_GetToolFirstExactMatch ==
    [][/\ \A t \in Tasks :
            (Free(t) /\ task'[t].op = "getTool")
                => Has(clients, task'[t].name)
       /\ (task' = task /\ ret'.op = "getTool")
            => (~Has(clients, ret'.name) /\ ret'.outcome = "NotConnected")
       /\ (task' # task /\ ret'.op = "getTool"
           /\ ret'.outcome # "ListingFailed")
            => LET L == backend[ret'.name]
                   c == ret'.input.toolName
                   named == {k \in DOMAIN L.tools : L.tools[k].name = c}
               IN /\ L.kind = "malformed" => ret'.outcome = "NoToolsFound"
                  /\ (L.kind = "tools" /\ named = {})
                        => ret'.outcome = "CapabilityNotFound"
                  /\ (L.kind = "tools" /\ named # {})
                        => /\ ret'.outcome = "ok"
                           /\ \E k \in named :
                                /\ \A j \in named : k <= j
                                /\ ret'.value = L.tools[k]]_vars

\* getTool returned the first of two descriptors of the same name, which
\* stands behind a descriptor whose name differs in case only
C14_Witness ==
    /\ ret.op = "getTool"
    /\ ret.outcome = "ok"
    /\ backend[ret.name] = Lists(DupTools)
    /\ ret.value = DupTools[2]

\* C15: a callTool(n, c, args) that reaches n's Client calls client.callTool
\* once, with c and args, and never again; it returns the result of that call
\* as it is, and when that call fails it fails with the error of that call
\* and leaves the registry as it is.
C15_InvokeOnceNoRetry ==
    [][/\ \A t \in Tasks :
            task'[t].op = "callTool"
                => task'[t].sent =
                        <<[name |-> task'[t].input.toolName,
                           arguments |-> task'[t].input.arguments]>>
       /\ (ret'.op = "callTool" /\ ret'.outcome # "NotConnected")
            => /\ ret'.sent = <<[name |-> ret'.input.toolName,
                                 arguments |-> ret'.input.arguments]>>
               /\ ret'.outcome \in {"ok", "InvocationFailed"}
               /\ ret'.outcome = "ok" <=> ret'.reply \in Payloads
               /\ ret'.value = ret'.reply
               /\ clients' = clients]_vars

\* an invoke failed with the error of the Session while its name is registered
C15_Witness ==
    /\ ret.op = "callTool"
    /\ ret.outcome = "InvocationFailed"
    /\ ret.value = CallToolError
    /\ Len(ret.sent) = 1
    /\ Has(clients, ret.name)

\* the calls that only read the registry
AllReads == ReadOps \cup {"findTools", "listServers"}

\* the step is a step of one of the reads
ReadStep ==
    \/ ret'.op \in AllReads
    \/ \E t \in Tasks :
        /\ task'[t] # task[t]
        /\ (task[t].op \in AllReads \/ task'[t].op \in AllReads)

\* C17: no step of listServers, listTools, listToolsInServer, getTool,
\* findToolsInServer, findTools or callTool, whether the call succeeds or
\* fails, changes the registry: the names, their order, the Client of each
\* name and the state of that Client stay as they are.
C17_ReadsLeaveRegistry ==
    [][ReadStep
        => /\ clients' = clients
           /\ \A i \in DOMAIN clients :
                sess'[clients[i].sid] = sess[clients[i].sid]]_vars

\* a read has failed in the listing call of a registered backend
C17_Witness ==
    /\ ret.op \in AllReads
    /\ ret.outcome = "ListingFailed"
    /\ Has(clients, ret.name)

\* ======================================================= setup properties
\* the transport variant the parameters p ask for
Variant(p) ==
    IF p.type = "stdio" THEN "Process"
    ELSE IF p.type = "http" THEN "Streamed"
    ELSE IF p.command # "" THEN "Process" ELSE "Streamed"

\* the failure of a connect with the parameters p before any Session is
\* opened, "ok" when there is none
ParamsError(p) ==
    IF Variant(p) = "Process"
    THEN IF p.command = "" THEN "MissingCommand" ELSE "ok"
    ELSE IF p.url = "" THEN "MissingUrl"
    ELSE IF p.url = "invalid" THEN "InvalidUrl" ELSE "ok"

\* C12: a connect(n, p) on an unregistered n builds the transport of the
\* explicit discriminant when p has one, else stdio exactly when p has a
\* command and http otherwise; it fails with MissingCommand, MissingUrl or
\* InvalidUrl exactly when the variant lacks its command, lacks its URL or
\* has an unparseable URL, and then no Session is opened and the registry is
\* unchanged.
C12_TransportSelection ==
    [][/\ \A t \in Tasks :
            (Free(t) /\ task'[t].op = "connect")
                => /\ ParamsError(task'[t].params) = "ok"
                   /\ task'[t].transport =
                        (IF Variant(task'[t].params) = "Process"
                         THEN "stdio" ELSE "http")
       /\ (task' = task /\ ret'.op = "connect" /\ ~Has(clients, ret'.name))
            => /\ ret'.outcome \in {"MissingCommand", "MissingUrl", "InvalidUrl"}
               /\ ret'.outcome = ParamsError(ret'.params)
               /\ clients' = clients
               /\ sess' = sess]_vars

\* a connect with the explicit discriminant http, a command and an
\* unparseable URL failed with InvalidUrl
C12_Witness ==
    /\ ret.op = "connect"
    /\ ret.outcome = "InvalidUrl"
    /\ ret.params.type = "http"
    /\ ret.params.command = "cmd"
\* the names the pass has connected, in the order of the pass
ConnectedBy(done) ==
    LET hit == SelectSeq(done, LAMBDA d : d.outcome = "connected")
    IN [i \in DOMAIN hit |-> hit[i].name]

\* the entries a loadFromBlueprint of the caller t has dealt with after the
\* step
DealtNext(t) ==
    IF task'[t].op = "loadFromBlueprint" THEN task'[t].results
    ELSE IF ret'.op = "loadFromBlueprint" /\ ret'.outcome = "ok"
    THEN ret'.value
    ELSE task[t].results

\* the step is one of the caller t
StepOf(t) ==
    \A u \in Tasks \ {t} :
        [task'[u] EXCEPT !.alone = TRUE] = [task[u] EXCEPT !.alone = TRUE]

\* the Clients the step creates
Created == {x \in Sids : sess[x].st = "unused" /\ sess'[x].st # "unused"}

\* the pass of a loadFromBlueprint that has returned: every entry of the
\* configuration dealt with, in its order, and no error
PassComplete ==
    ret.op = "loadFromBlueprint"
        => /\ ret.outcome \in {"ok", "NoBlueprintId", "FetchFailed"}
           /\ ret.outcome # "ok" => ret.config = <<>>
           /\ ret.outcome = "ok"
                => /\ Len(ret.value) = Len(ret.config)
                   /\ \A i \in DOMAIN ret.value :
                        /\ ret.value[i].name = ret.config[i].name
                        /\ ret.value[i].outcome = "connected"
                                => ParamsError(ret.config[i].params) = "ok"

\* the registry after a pass during which no other call took a step
PassAlone ==
    (ret.op = "loadFromBlueprint" /\ ret.outcome = "ok" /\ ret.alone)
        => LET done == ret.value
               before == ret.names
           IN /\ \A i \in DOMAIN done :
                    /\ done[i].outcome = "skipped"
                            <=> Has(before, done[i].name)
                    /\ (~Has(before, done[i].name)
                        /\ ParamsError(ret.config[i].params) # "ok")
                            => done[i].outcome
                                    = ParamsError(ret.config[i].params)
              /\ Len(clients) = Len(before) + Len(ConnectedBy(done))
              /\ SubSeq(clients, 1, Len(before)) = before
              /\ SubSeq(getConnectedServers(clients),
                        Len(before) + 1, Len(clients))
                    = ConnectedBy(done)
              /\ \A x \in Sids : sess[x].st # "connecting"

\* one step of the pass of the caller t: the entries dealt with only grow; an
\* entry is skipped exactly when the registry has its name at its turn, and
\* then the name keeps its Client and no Client is created for it
PassStep(t) ==
    LET old == task[t].results
        new == DealtNext(t)
    IN /\ Len(new) >= Len(old)
       /\ SubSeq(new, 1, Len(old)) = old
       /\ \A i \in (Len(old) + 1)..Len(new) :
            /\ new[i].outcome = "skipped"
                => /\ Has(clients, new[i].name)
                   /\ Has(clients', new[i].name)
                   /\ Get(clients', new[i].name) = Get(clients, new[i].name)
                   /\ Created \subseteq {task'[t].client}
                   /\ task'[t].client # 0 => task'[t].name # new[i].name
            /\ new[i].outcome \notin {"skipped", "connected", "ConnectionFailed"}
                => /\ ~Has(clients, new[i].name)
                   /\ Created = {}
                   /\ clients' = clients
       /\ (task'[t].pc = "awaitConnect" /\ task[t].pc # "awaitConnect")
            => /\ ~Has(clients, task'[t].name)
               /\ Created = {task'[t].client}

\* C19: a loadFromBlueprint that has fetched its configuration deals with
\* every entry, in the order of the configuration, one after the other, and
\* returns without an error, whatever other calls do meanwhile: an entry
\* whose name is registered at its turn is skipped, no Client is created for
\* it and its name keeps the Client it has; an entry whose connect fails does
\* not end the pass.  When no other call took a step during the pass, the
\* registry is then the registry of before, entry for entry, followed by the
\* names whose connect succeeded, in the order of the configuration, with no
\* connect left in flight.
C19_BootstrapPass ==
    /\ [](PassComplete /\ PassAlone)
    /\ [][\A t \in Tasks :
            (task[t].op = "loadFromBlueprint" /\ StepOf(t)) => PassStep(t)]_vars

\* a pass that no other call disturbed went on after a connect that failed
\* and connected the next entry, after the other caller had registered a name
C19_Witness ==
    /\ ret.op = "loadFromBlueprint"
    /\ ret.outcome = "ok"
    /\ ret.alone
    /\ Len(ret.value) = 2
    /\ ret.value[1].outcome = "ConnectionFailed"
    /\ ret.value[2].outcome = "connected"
    /\ Has(clients, ret.value[2].name)

\* C20: a disconnectAll with no other call in flight and closes that succeed
\* comes to its end: it calls close() on the Client of one name after the
\* other, in the order of listNames(), each name of its snapshot once, and
\* returns with an empty registry and no Client left; on an empty registry it
\* returns at once and closes nothing.
C20_DisconnectAllEmptiesRegistry ==
    /\ [][/\ \A t \in Tasks :
               (task'[t].op = "disconnectAll" /\ task'[t].pc = "awaitClose"
                /\ task[t].pc # "awaitClose")
                   => /\ task'[t].names =
                           (IF Free(t) THEN getConnectedServers(clients)
                            ELSE task[t].names)
                      /\ task'[t].idx = task[t].idx + 1
                      /\ task'[t].name = task'[t].names[task'[t].idx]
                      /\ clients # <<>>
                      /\ clients[1] = Entry(task'[t].name, task'[t].client)
                      /\ sess[task'[t].client].st = "open"
                      /\ sess'[task'[t].client].closeCalled
          /\ \A t \in Tasks :
               (task[t].op = "disconnectAll" /\ Free(t)')
                   => task[t].idx = Len(task[t].names)
          /\ (ret'.op = "disconnectAll" /\ task' = task)
               => (clients = <<>> /\ sess' = sess)
          /\ ret'.op = "disconnectAll"
               => /\ ret'.outcome = "ok"
                  /\ clients' = <<>>
                  /\ \A x \in Sids : sess'[x].st = "unused"]_vars
    /\ (task[Operator].op = "disconnectAll")
            ~> (ret.op = "disconnectAll" /\ ret.outcome = "ok"
                /\ clients = <<>>)

\* disconnectAll has closed the two Clients of its snapshot and is about to
\* return
C20_Witness ==
    /\ task[Operator].op = "disconnectAll"
    /\ task[Operator].pc = "loop"
    /\ task[Operator].idx = 2
    /\ Len(task[Operator].names) = 2
    /\ clients = <<>>
    /\ \A x \in Sids : sess[x].st = "unused"
====
